---- MODULE Spec2Model ----
(***************************************************************************)
(* Agent message envelope (AgentMessage) and its serialization pipeline    *)
(* (AgentMessageSchema) of aries_cloudagent/messaging/agent_message.py.    *)
(*                                                                         *)
(* A wire map is an ordered sequence of entries [k |-> key, v |-> value].  *)
(* A key is the pair (field, deco) obtained by splitting the wire key at   *)
(* the decorator prefix "~": "a" is (a, ""), "a~sig" is (a, sig) and       *)
(* "~thread" is ("", thread).  Every wire value is a tuple of strings.     *)
(***************************************************************************)
EXTENDS Integers, Sequences, FiniteSets, TLC

\* ------------------------------------------------------------------ bounds
MaxMsgs == 2
MaxOps == 4
MaxLoads == 2
MaxChain == 3

\* --------------------------------------------------------------- universes
NONE == "none"
MESSAGE_TYPE == "msg-type"
FieldNames == <<"a", "b">>
FieldSet == {FieldNames[n] : n \in 1..Len(FieldNames)}
Values == {"v1", "v2"}
Keys == {"K1", "K2"}
Timestamp == "t1"
SuppliedId == "id1"
Policies == {<<>>, <<"a">>, <<"a", "b">>}
Slots == 1..MaxMsgs
SchemaRef == 0

VARIABLES signed_fields, msgs, heap, schema, last, nextId, nops, nloads
vars == <<signed_fields, msgs, heap, schema, last, nextId, nops, nloads>>

\* ---------------------------------------------------------------- helpers
Range(s) == {s[n] : n \in 1..Len(s)}

RECURSIVE IndexOfFrom(_, _, _)
IndexOfFrom(s, k, n) ==
    IF n > Len(s) THEN 0
    ELSE IF s[n].k = k THEN n
    ELSE IndexOfFrom(s, k, n + 1)

\* position of key k in the ordered map m, 0 when absent
IndexOf(m, k) == IndexOfFrom(m, k, 1)
HasKey(m, k) == IndexOf(m, k) # 0
Get(m, k) == m[IndexOf(m, k)].v

\* dict assignment m[k] = v: replaces in place, appends a new key
Put(m, k, v) ==
    IF HasKey(m, k)
    THEN [m EXCEPT ![IndexOf(m, k)] = [k |-> k, v |-> v]]
    ELSE Append(m, [k |-> k, v |-> v])

\* del m[k], for a key that is present
Del(m, k) ==
    LET p == IndexOf(m, k)
    IN SubSeq(m, 1, p - 1) \o SubSeq(m, p + 1, Len(m))

RECURSIVE Update(_, _)
\* OrderedDict.update
Update(m, other) ==
    IF other = <<>> THEN m
    ELSE Update(Put(m, Head(other).k, Head(other).v), Tail(other))

\* ------------------------------------------------------------------- keys
PlainKey(f) == [field |-> f, deco |-> ""]
FieldDecoKey(f, d) == [field |-> f, deco |-> d]
GlobalKey(d) == [field |-> "", deco |-> d]
SigKey(f) == FieldDecoKey(f, "sig")
TypeKey == PlainKey("@type")
IdKey == PlainKey("@id")
ThreadKey == GlobalKey("thread")

\* ------------------------------------------------------ SignatureDecorator
NoSig == [signer |-> NONE, sig_data |-> <<>>, signature |-> <<>>]

\* the signer service: the signature bytes of key over payload
WalletSign(key, payload) == <<key>> \o payload
WalletVerify(key, payload, signature) == signature = WalletSign(key, payload)
Forged == <<"forged">>

Encode(timestamp, value) == <<timestamp, value>>

SigCreate(value, signer, timestamp) ==
    [signer |-> signer,
     sig_data |-> Encode(timestamp, value),
     signature |-> WalletSign(signer, Encode(timestamp, value))]

\* decode() -> (value, timestamp)
SigDecode(sig) == <<sig.sig_data[2], sig.sig_data[1]>>

SigVerify(sig) == WalletVerify(sig.signer, sig.sig_data, sig.signature)

SigSerialize(sig) == <<sig.signer>> \o sig.sig_data \o sig.signature

SigDeserialize(w) ==
    [signer |-> w[1],
     sig_data |-> SubSeq(w, 2, 3),
     signature |-> SubSeq(w, 4, Len(w))]

\* --------------------------------------------------------- ThreadDecorator
NoThread == [present |-> FALSE, thid |-> NONE, pthid |-> NONE]
ThreadDecorator(thid, pthid) == [present |-> TRUE, thid |-> thid, pthid |-> pthid]
ThreadSerialize(t) == <<t.thid, t.pthid>>
ThreadDeserialize(w) == ThreadDecorator(w[1], w[2])

\* ------------------------------------------------------------ DecoratorSet
EmptyDecoratorSet == [thread |-> NoThread, fields |-> <<>>]

RECURSIVE FieldIndexFrom(_, _, _)
FieldIndexFrom(fs, name, n) ==
    IF n > Len(fs) THEN 0
    ELSE IF fs[n].name = name THEN n
    ELSE FieldIndexFrom(fs, name, n + 1)

FieldIndex(ds, name) == FieldIndexFrom(ds.fields, name, 1)

\* field(name): the per-field decorators of name, created empty when absent
Field(ds, name) ==
    IF FieldIndex(ds, name) # 0 THEN ds
    ELSE [ds EXCEPT !.fields = Append(@, [name |-> name, sig |-> NoSig, x |-> NONE])]

\* field(name).get("sig")
FieldSig(ds, name) == Field(ds, name).fields[FieldIndex(Field(ds, name), name)].sig

\* field(name)["sig"] = sig
FieldSetSig(ds, name, sig) ==
    LET d == Field(ds, name)
    IN [d EXCEPT !.fields[FieldIndex(d, name)].sig = sig]

\* field(name)["x"] = v, a per-field decorator of another kind
FieldSetOther(ds, name, v) ==
    LET d == Field(ds, name)
    IN [d EXCEPT !.fields[FieldIndex(d, name)].x = v]

LoadDecorator(ds, key, value) ==
    IF key.field = ""
    THEN [ds EXCEPT !.thread = ThreadDeserialize(value)]
    ELSE IF key.deco = "sig"
    THEN FieldSetSig(ds, key.field, SigDeserialize(value))
    ELSE FieldSetOther(ds, key.field, value[1])

RECURSIVE ExtractFrom(_, _, _)
ExtractFrom(ds, data, remain) ==
    IF data = <<>> THEN [ds |-> ds, remain |-> remain]
    ELSE LET e == Head(data)
         IN IF e.k.deco # ""
            THEN ExtractFrom(LoadDecorator(ds, e.k, e.v), Tail(data), remain)
            ELSE ExtractFrom(ds, Tail(data), Put(remain, e.k, e.v))

\* DecoratorSet.extract_decorators: the decorators of data are added to the
\* set, the other keys are returned
DecoratorSetExtract(ds, data) == ExtractFrom(ds, data, <<>>)

RECURSIVE FieldsToDict(_)
FieldsToDict(fs) ==
    IF fs = <<>> THEN <<>>
    ELSE (IF Head(fs).sig # NoSig
          THEN <<[k |-> SigKey(Head(fs).name), v |-> SigSerialize(Head(fs).sig)]>>
          ELSE <<>>)
         \o (IF Head(fs).x # NONE
             THEN <<[k |-> FieldDecoKey(Head(fs).name, "x"), v |-> <<Head(fs).x>>]>>
             ELSE <<>>)
         \o FieldsToDict(Tail(fs))

\* DecoratorSet.to_dict: global decorators, then the per-field decorators
DecoratorSetToDict(ds) ==
    (IF ds.thread.present
     THEN <<[k |-> ThreadKey, v |-> ThreadSerialize(ds.thread)]>>
     ELSE <<>>)
    \o FieldsToDict(ds.fields)

\* DecoratorSet.copy
DecoratorSetCopy(ds) == ds

\* ------------------------------------------------------------ AgentMessage
NoVals == [f \in FieldSet |-> NONE]
NoMsg == [live |-> FALSE, id |-> NONE, new_id |-> FALSE, deco |-> SchemaRef, vals |-> NoVals]

GenId(n) == "u" \o ToString(n)

\* AgentMessage.__init__ with the fields a message type adds
AgentMessageInit(_id, _decorators, vals, fresh) ==
    [live |-> TRUE,
     id |-> IF _id # NONE THEN _id ELSE fresh,
     new_id |-> _id = NONE,
     deco |-> _decorators,
     vals |-> vals]

Decorators(i) == heap[msgs[i].deco]

\* get_signature
GetSignature(ds, field_name) == FieldSig(ds, field_name)

\* ----------------------------------------------------- AgentMessage: thread
\* truth value of an optional string
Truthy(v) == v # NONE /\ v # ""

\* _thread getter and setter
Thread(ds) == ds.thread
SetThread(ds, val) == [ds EXCEPT !.thread = val]

\* as ThreadId, with the thid of any thread decorator, set or not
ThreadIdOfAnyThread(obj, ds) ==
    IF Thread(ds).present THEN Thread(ds).thid ELSE obj.id

\* _thread_id
ThreadId(obj, ds) ==
    IF Thread(ds).present /\ Truthy(Thread(ds).thid) THEN Thread(ds).thid ELSE obj.id

\* assign_thread_id
AssignThreadIdResult(ds, thid, pthid) == SetThread(ds, ThreadDecorator(thid, pthid))

\* as AssignThreadFromResult, without the message id in place of a missing thid
AssignThreadFromNoFallback(ds, msg, msg_ds) ==
    IF msg.live
    THEN AssignThreadIdResult(ds, Thread(msg_ds).thid, Thread(msg_ds).pthid)
    ELSE ds

\* assign_thread_from: msg is the previous message, NoMsg for None, and msg_ds
\* its decorator set
AssignThreadFromResult(ds, msg, msg_ds) ==
    IF msg.live
    THEN LET thread == Thread(msg_ds)
             thid == IF thread.present /\ Truthy(thread.thid) THEN thread.thid ELSE msg.id
             pthid == IF thread.present THEN thread.pthid ELSE NONE
         IN AssignThreadIdResult(ds, thid, pthid)
    ELSE ds

\* ------------------------------------------------- AgentMessageSchema: load
Fault(exc, msg) == [exc |-> exc, msg |-> msg]
NoFault == Fault(NONE, NONE)

RECURSIVE CheckFieldSignaturesNoConflict(_, _, _, _, _)
\* as CheckFieldSignatures, without the test for a plain value next to the signature
CheckFieldSignaturesNoConflict(fs, n, expect_fields, processed, found_signatures) ==
    IF n > Len(fs)
    THEN [fault |-> NoFault, processed |-> processed, found |-> found_signatures]
    ELSE IF fs[n].sig = NoSig
    THEN CheckFieldSignaturesNoConflict(fs, n + 1, expect_fields, processed,
                                        found_signatures)
    ELSE IF fs[n].name \notin Range(expect_fields)
    THEN [fault |-> Fault("ValidationError", "unexpected field signature"),
          processed |-> processed, found |-> found_signatures]
    ELSE CheckFieldSignaturesNoConflict(fs, n + 1, expect_fields,
             Put(processed, PlainKey(fs[n].name), <<SigDecode(fs[n].sig)[1]>>),
             found_signatures \cup {fs[n].name})

RECURSIVE CheckFieldSignaturesNoUnexpected(_, _, _, _, _)
\* as CheckFieldSignatures, without the test against the signed fields of the policy
CheckFieldSignaturesNoUnexpected(fs, n, expect_fields, processed, found_signatures) ==
    IF n > Len(fs)
    THEN [fault |-> NoFault, processed |-> processed, found |-> found_signatures]
    ELSE IF fs[n].sig = NoSig
    THEN CheckFieldSignaturesNoUnexpected(fs, n + 1, expect_fields, processed,
                                          found_signatures)
    ELSE IF HasKey(processed, PlainKey(fs[n].name))
    THEN [fault |-> Fault("ValidationError", "both field signature and value"),
          processed |-> processed, found |-> found_signatures]
    ELSE CheckFieldSignaturesNoUnexpected(fs, n + 1, expect_fields,
             Put(processed, PlainKey(fs[n].name), <<SigDecode(fs[n].sig)[1]>>),
             found_signatures \cup {fs[n].name})

RECURSIVE CheckFieldSignatures(_, _, _, _, _)
\* the loop over the per-field decorators of the schema's decorator set
CheckFieldSignatures(fs, n, expect_fields, processed, found_signatures) ==
    IF n > Len(fs)
    THEN [fault |-> NoFault, processed |-> processed, found |-> found_signatures]
    ELSE IF fs[n].sig = NoSig
    THEN CheckFieldSignatures(fs, n + 1, expect_fields, processed, found_signatures)
    ELSE IF fs[n].name \notin Range(expect_fields)
    THEN [fault |-> Fault("ValidationError", "unexpected field signature"),
          processed |-> processed, found |-> found_signatures]
    ELSE IF HasKey(processed, PlainKey(fs[n].name))
    THEN [fault |-> Fault("ValidationError", "both field signature and value"),
          processed |-> processed, found |-> found_signatures]
    ELSE CheckFieldSignatures(fs, n + 1, expect_fields,
             Put(processed, PlainKey(fs[n].name), <<SigDecode(fs[n].sig)[1]>>),
             found_signatures \cup {fs[n].name})

\* the loop over the signed fields of the policy
ExpectedMissing(expect_fields, found_signatures) ==
    \E n \in 1..Len(expect_fields) : expect_fields[n] \notin found_signatures

\* pre_load hook: ds is the schema's decorator set before the call
ExtractDecorators(ds, data, expect_fields) ==
    LET ex == DecoratorSetExtract(ds, data)
        chk == CheckFieldSignatures(ex.ds.fields, 1, expect_fields, ex.remain, {})
    IN  [ds |-> ex.ds,
         processed |-> chk.processed,
         fault |-> IF chk.fault # NoFault THEN chk.fault
                   ELSE IF ExpectedMissing(expect_fields, chk.found)
                   THEN Fault("ValidationError", "expected field signature")
                   ELSE NoFault]

\* the field schema's load and the construction of the message
FieldSchemaLoad(processed, fresh) ==
    AgentMessageInit(
        IF HasKey(processed, IdKey) THEN Get(processed, IdKey)[1] ELSE NONE,
        SchemaRef,
        [f \in FieldSet |->
            IF HasKey(processed, PlainKey(f)) THEN Get(processed, PlainKey(f))[1] ELSE NONE],
        fresh)

\* post_load hook: the message gets the schema's decorator set itself
PopulateDecorators(obj) == [obj EXCEPT !.deco = SchemaRef]

\* ------------------------------------------------- AgentMessageSchema: dump
RECURSIVE Signatures(_)
\* the signatures of the copy, serialized, in the order of its fields
Signatures(fs) ==
    IF fs = <<>> THEN <<>>
    ELSE (IF Head(fs).sig # NoSig
          THEN <<[k |-> Head(fs).name, v |-> SigSerialize(Head(fs).sig)]>>
          ELSE <<>>)
         \o Signatures(Tail(fs))

WithoutSignatures(ds) ==
    [ds EXCEPT !.fields = [n \in 1..Len(ds.fields) |-> [ds.fields[n] EXCEPT !.sig = NoSig]]]

\* as MissingSignature, checked only when the message has some signature
MissingSignatureWhenAny(expect_fields, signatures) ==
    \E n \in 1..Len(expect_fields) :
        /\ signatures # <<>>
        /\ ~HasKey(signatures, expect_fields[n])

MissingSignature(expect_fields, signatures) ==
    \E n \in 1..Len(expect_fields) : ~HasKey(signatures, expect_fields[n])

\* as CheckDumpDecorators, with the signatures deleted from the decorator set
\* of the message itself
CheckDumpDecoratorsInPlace(ds, expect_fields) ==
    LET signatures == Signatures(ds.fields)
    IN  [decorators_dict |-> DecoratorSetToDict(WithoutSignatures(ds)),
         signatures |-> signatures,
         live |-> WithoutSignatures(ds),
         fault |-> IF MissingSignature(expect_fields, signatures)
                   THEN Fault("BaseModelError", "missing signature for field")
                   ELSE NoFault]

\* pre_dump hook; live is the decorator set of the message after the hook: the
\* signatures are deleted from the copy
CheckDumpDecorators(ds, expect_fields) ==
    LET decorators == DecoratorSetCopy(ds)
        signatures == Signatures(decorators.fields)
    IN  [decorators_dict |-> DecoratorSetToDict(WithoutSignatures(decorators)),
         signatures |-> signatures,
         live |-> ds,
         fault |-> IF MissingSignature(expect_fields, signatures)
                   THEN Fault("BaseModelError", "missing signature for field")
                   ELSE NoFault]

RECURSIVE FieldValues(_, _)
FieldValues(vals, names) ==
    IF names = <<>> THEN <<>>
    ELSE (IF vals[Head(names)] # NONE
          THEN <<[k |-> PlainKey(Head(names)), v |-> <<vals[Head(names)]>>]>>
          ELSE <<>>)
         \o FieldValues(vals, Tail(names))

\* the field schema's dump: the fields that have a value, then @type and @id
FieldSchemaDump(obj) ==
    FieldValues(obj.vals, FieldNames)
    \o <<[k |-> TypeKey, v |-> <<MESSAGE_TYPE>>], [k |-> IdKey, v |-> <<obj.id>>]>>

\* as DumpDecorators, without moving @type and @id to the front
DumpDecoratorsNoPop(data, decorators_dict) == Update(decorators_dict, data)

RECURSIVE PopKeys(_, _, _)
PopKeys(keys, data, result) ==
    IF keys = <<>> THEN [data |-> data, result |-> result]
    ELSE IF HasKey(data, Head(keys))
    THEN PopKeys(Tail(keys), Del(data, Head(keys)),
                 Put(result, Head(keys), Get(data, Head(keys))))
    ELSE PopKeys(Tail(keys), data, result)

\* post_dump hook
DumpDecorators(data, decorators_dict) ==
    LET p == PopKeys(<<TypeKey, IdKey>>, data, <<>>)
    IN Update(Update(p.result, decorators_dict), p.data)

RECURSIVE ReplaceSignaturesKeepPlain(_, _)
\* as ReplaceSignatures, without the del of the plain key
ReplaceSignaturesKeepPlain(data, signatures) ==
    IF signatures = <<>> THEN [fault |-> NoFault, data |-> data]
    ELSE IF ~HasKey(data, PlainKey(Head(signatures).k))
    THEN [fault |-> Fault("KeyError", Head(signatures).k), data |-> <<>>]
    ELSE ReplaceSignaturesKeepPlain(
             Put(data, SigKey(Head(signatures).k), Head(signatures).v),
             Tail(signatures))

RECURSIVE ReplaceSignatures(_, _)
\* post_dump hook: del data[field_name] raises KeyError for a key not in data
ReplaceSignatures(data, signatures) ==
    IF signatures = <<>> THEN [fault |-> NoFault, data |-> data]
    ELSE IF ~HasKey(data, PlainKey(Head(signatures).k))
    THEN [fault |-> Fault("KeyError", Head(signatures).k), data |-> <<>>]
    ELSE ReplaceSignatures(
             Put(Del(data, PlainKey(Head(signatures).k)),
                 SigKey(Head(signatures).k), Head(signatures).v),
             Tail(signatures))

\* Schema.dump: pre_dump, the field schema, then the post_dump hooks
SchemaDump(obj, ds, expect_fields) ==
    LET pre == CheckDumpDecorators(ds, expect_fields)
        post == ReplaceSignatures(
                    DumpDecorators(FieldSchemaDump(obj), pre.decorators_dict),
                    pre.signatures)
    IN  [decorators_dict |-> pre.decorators_dict,
         signatures |-> pre.signatures,
         live |-> pre.live,
         fault |-> IF pre.fault # NoFault THEN pre.fault ELSE post.fault,
         data |-> IF pre.fault # NoFault THEN <<>> ELSE post.data]

\* ------------------------------------------------- AgentMessage: signatures
\* set_signature
SetSignature(ds, field_name, signature) == FieldSetSig(ds, field_name, signature)

\* what the awaited SignatureDecorator.create raises when it does not complete
SignerFault(outcome) ==
    Fault(IF outcome = "cancelled" THEN "CancelledError" ELSE "WalletError", outcome)

\* as SignFieldResult, with the entry of the field cleared before the signer
\* is awaited
SignFieldClearFirst(ds, value, field_name, signer_verkey, outcome) ==
    IF value = NONE
    THEN [fault |-> Fault("BaseModelError", "field has no value for signature"),
          ds |-> ds, sig |-> NoSig]
    ELSE IF outcome # "done"
    THEN [fault |-> SignerFault(outcome),
          ds |-> SetSignature(ds, field_name, NoSig), sig |-> NoSig]
    ELSE [fault |-> NoFault,
          ds |-> SetSignature(ds, field_name, SigCreate(value, signer_verkey, Timestamp)),
          sig |-> SigCreate(value, signer_verkey, Timestamp)]

\* sign_field: the value is read, the signer is awaited, the result is stored;
\* outcome is how the awaited signer call ends
SignFieldResult(ds, value, field_name, signer_verkey, outcome) ==
    IF value = NONE
    THEN [fault |-> Fault("BaseModelError", "field has no value for signature"),
          ds |-> ds, sig |-> NoSig]
    ELSE IF outcome # "done"
    THEN [fault |-> SignerFault(outcome), ds |-> ds, sig |-> NoSig]
    ELSE [fault |-> NoFault,
          ds |-> SetSignature(ds, field_name, SigCreate(value, signer_verkey, Timestamp)),
          sig |-> SigCreate(value, signer_verkey, Timestamp)]

\* as VerifySignedFieldResult, with the signer compared before the verification
VerifySignedFieldSignerFirst(ds, field_name, signer_verkey) ==
    LET sig == GetSignature(ds, field_name)
    IN  IF sig = NoSig
        THEN [fault |-> Fault("BaseModelError", "missing field signature"),
              ret |-> NONE, calls |-> <<>>]
        ELSE IF signer_verkey # NONE /\ sig.signer # signer_verkey
        THEN [fault |-> Fault("BaseModelError", "signer verkey does not match"),
              ret |-> NONE, calls |-> <<>>]
        ELSE IF ~SigVerify(sig)
        THEN [fault |-> Fault("BaseModelError", "field signature verification failed"),
              ret |-> NONE, calls |-> <<field_name>>]
        ELSE [fault |-> NoFault, ret |-> sig.signer, calls |-> <<field_name>>]

\* verify_signed_field; calls lists the fields whose signature went to the verifier
VerifySignedFieldResult(ds, field_name, signer_verkey) ==
    LET sig == GetSignature(ds, field_name)
    IN  IF sig = NoSig
        THEN [fault |-> Fault("BaseModelError", "missing field signature"),
              ret |-> NONE, calls |-> <<>>]
        ELSE IF ~SigVerify(sig)
        THEN [fault |-> Fault("BaseModelError", "field signature verification failed"),
              ret |-> NONE, calls |-> <<field_name>>]
        ELSE IF signer_verkey # NONE /\ sig.signer # signer_verkey
        THEN [fault |-> Fault("BaseModelError", "signer verkey does not match"),
              ret |-> NONE, calls |-> <<field_name>>]
        ELSE [fault |-> NoFault, ret |-> sig.signer, calls |-> <<field_name>>]

RECURSIVE VerifySignaturesAll(_, _, _, _)
VerifySignaturesAll(fs, n, calls, ret) ==
    IF n > Len(fs) THEN [ret |-> ret, calls |-> calls]
    ELSE IF fs[n].sig = NoSig THEN VerifySignaturesAll(fs, n + 1, calls, ret)
    ELSE VerifySignaturesAll(fs, n + 1, Append(calls, fs[n].name),
                             IF SigVerify(fs[n].sig) THEN ret ELSE "False")

\* as VerifySignaturesFrom, verifying every signature before it answers
VerifySignaturesNoShortCircuit(fs, n, calls) == VerifySignaturesAll(fs, n, calls, "True")

RECURSIVE VerifySignaturesFrom(_, _, _)
\* verify_signatures: the loop over the per-field decorators, in their order
VerifySignaturesFrom(fs, n, calls) ==
    IF n > Len(fs) THEN [ret |-> "True", calls |-> calls]
    ELSE IF fs[n].sig = NoSig THEN VerifySignaturesFrom(fs, n + 1, calls)
    ELSE IF ~SigVerify(fs[n].sig)
    THEN [ret |-> "False", calls |-> Append(calls, fs[n].name)]
    ELSE VerifySignaturesFrom(fs, n + 1, Append(calls, fs[n].name))

VerifySignaturesResult(ds) == VerifySignaturesFrom(ds.fields, 1, <<>>)

\* ------------------------------------------------------------------ inputs
Tampered(sig) == [sig EXCEPT !.signature = Forged]

\* signatures that arrive from outside: good ones and one with altered bytes
SigInputs ==
    {SigCreate("v1", "K1", Timestamp), SigCreate("v2", "K2", Timestamp),
     Tampered(SigCreate("v1", "K1", Timestamp))}

AllVals == [FieldSet -> Values \cup {NONE}]

Entries(f) ==
    {[name |-> f, sig |-> s, x |-> x] : s \in {NoSig} \cup SigInputs, x \in {NONE, "x1"}}

FieldSeqs ==
    {<<>>}
    \cup {<<e>> : e \in Entries("a") \cup Entries("b")}
    \cup {<<e[1], e[2]>> : e \in Entries("a") \X Entries("b")}
    \cup {<<e[2], e[1]>> : e \in Entries("a") \X Entries("b")}

Threads == {NoThread, ThreadDecorator("T", "P")}

\* decorator sets a message can be constructed with
DecoratorSets == {[thread |-> t, fields |-> fs] : t \in Threads, fs \in FieldSeqs}

FewDecoratorSets ==
    {EmptyDecoratorSet,
     [thread |-> ThreadDecorator("T", "P"), fields |-> <<>>],
     [thread |-> NoThread,
      fields |-> <<[name |-> "b", sig |-> SigCreate("v2", "K2", Timestamp), x |-> NONE]>>]}

\* thread decorators a message can be constructed with
ThreadInputs ==
    {NoThread, ThreadDecorator("T", "P"), ThreadDecorator("T", NONE),
     ThreadDecorator(NONE, "P")}

\* arguments of assign_thread_id and of the _id setter
ThreadIdInputs == {<<"T2", "P2">>}
IdInputs == {"id2"}

\* field values a message is constructed with
NewVals == {[f \in FieldSet |-> IF f = "a" THEN "v1" ELSE NONE]}

\* how an awaited call to the wallet ends
SignerOutcomes == {"done", "cancelled", "failed"}

Opt(present, key, value) == IF present THEN <<[k |-> key, v |-> value]>> ELSE <<>>

Wire(id, thread, x, pa, sa, pb, sb) ==
    <<[k |-> TypeKey, v |-> <<MESSAGE_TYPE>>]>>
    \o Opt(id # NONE, IdKey, <<id>>)
    \o Opt(thread.present, ThreadKey, ThreadSerialize(thread))
    \o Opt(pa # NONE, PlainKey("a"), <<pa>>)
    \o Opt(sa # NoSig, SigKey("a"), SigSerialize(sa))
    \o Opt(x # NONE, FieldDecoKey("a", "x"), <<x>>)
    \o Opt(pb # NONE, PlainKey("b"), <<pb>>)
    \o Opt(sb # NoSig, SigKey("b"), SigSerialize(sb))

\* wire maps received from other agents
WireInputs ==
    {Wire(d[1], d[2], d[3], pa, sa, b[1], b[2]) :
        d \in {<<NONE, NoThread, NONE>>, <<SuppliedId, ThreadDecorator("T", "P"), "x1">>},
        pa \in {NONE, "v2"},
        sa \in {NoSig, SigCreate("v1", "K1", Timestamp)},
        b \in {<<"v1", NoSig>>, <<NONE, NoSig>>,
               <<NONE, SigCreate("v2", "K2", Timestamp)>>}}

\* some of them: one without decorators, and with a signature for a, with a
\* thread, with signatures for a and b
FewWireInputs ==
    {Wire(NONE, NoThread, NONE, "v2", NoSig, "v1", NoSig),
     Wire(NONE, NoThread, NONE, NONE, SigCreate("v1", "K1", Timestamp), "v1", NoSig),
     Wire(SuppliedId, ThreadDecorator("T", "P"), "x1", NONE,
          SigCreate("v1", "K1", Timestamp), "v1", NoSig),
     Wire(NONE, NoThread, NONE, NONE, SigCreate("v1", "K1", Timestamp),
          NONE, SigCreate("v2", "K2", Timestamp))}

\* ------------------------------------------------------------- observation
NoSrc == [id |-> NONE, vals |-> NoVals, ds |-> EmptyDecoratorSet,
          sfield |-> NONE, skey |-> NONE]

\* the last call: its arguments, what it returned or raised
NoLast ==
    [op |-> NONE, slot |-> 0, field |-> NONE, arg |-> NONE, data |-> <<>>,
     out |-> <<>>, fault |-> NoFault, ret |-> NONE, sig |-> NoSig, calls |-> <<>>,
     src |-> NoSrc, rt |-> FALSE, msg |-> 0, chain |-> <<>>]

Op(name, i) == [NoLast EXCEPT !.op = name, !.slot = i]

\* ------------------------------------------------------------------- state
\* no message yet, a schema instance just constructed
InitEmpty ==
    /\ signed_fields \in Policies
    /\ msgs = [i \in Slots |-> NoMsg]
    /\ heap = [r \in {SchemaRef} \cup Slots |-> EmptyDecoratorSet]
    /\ schema = [decorators_dict |-> <<>>, signatures |-> <<>>]
    /\ last = NoLast
    /\ nextId = 1
    /\ nops = 0
    /\ nloads = 0

\* one message constructed with the arguments _id, _decorators and its fields
Constructed(ids, sets) ==
    /\ signed_fields \in Policies
    /\ \E _id \in ids, ds \in sets, vals \in AllVals :
          /\ msgs = [i \in Slots |->
                        IF i = 1 THEN AgentMessageInit(_id, 1, vals, GenId(1)) ELSE NoMsg]
          /\ heap = [r \in {SchemaRef} \cup Slots |->
                        IF r = 1 THEN ds ELSE EmptyDecoratorSet]
          /\ nextId = IF _id = NONE THEN 2 ELSE 1
    /\ schema = [decorators_dict |-> <<>>, signatures |-> <<>>]
    /\ last = NoLast
    /\ nops = 0
    /\ nloads = 0

InitEnvelope == Constructed({SuppliedId}, DecoratorSets)
InitFew == Constructed({NONE, SuppliedId}, FewDecoratorSets)

Step == nops < MaxOps /\ nops' = nops + 1

\* assignment to a field of the message
SetField(i, f, v) ==
    /\ Step
    /\ msgs[i].live
    /\ msgs[i].vals[f] # v
    /\ msgs' = [msgs EXCEPT ![i].vals[f] = v]
    /\ last' = [Op("set_field", i) EXCEPT !.field = f, !.arg = v]
    /\ UNCHANGED <<signed_fields, heap, schema, nextId, nloads>>

\* await msg.sign_field(f, signer_verkey, wallet)
SignField(i, f, signer_verkey, outcome) ==
    /\ Step
    /\ msgs[i].live
    /\ LET r == SignFieldResult(Decorators(i), msgs[i].vals[f], f, signer_verkey, outcome)
       IN /\ heap' = [heap EXCEPT ![msgs[i].deco] = r.ds]
          /\ last' = [Op("sign_field", i) EXCEPT
                        !.field = f, !.arg = signer_verkey, !.fault = r.fault,
                        !.sig = r.sig]
    /\ UNCHANGED <<signed_fields, msgs, schema, nextId, nloads>>

\* await msg.verify_signed_field(f, wallet, signer_verkey)
VerifySignedField(i, f, signer_verkey) ==
    /\ Step
    /\ msgs[i].live
    /\ LET r == VerifySignedFieldResult(Decorators(i), f, signer_verkey)
       IN /\ heap' = [heap EXCEPT ![msgs[i].deco] = Field(@, f)]
          /\ last' = [Op("verify_signed_field", i) EXCEPT
                        !.field = f, !.arg = signer_verkey, !.fault = r.fault,
                        !.ret = r.ret, !.calls = r.calls]
    /\ UNCHANGED <<signed_fields, msgs, schema, nextId, nloads>>

\* await msg.verify_signatures(wallet)
VerifySignatures(i) ==
    /\ Step
    /\ msgs[i].live
    /\ LET r == VerifySignaturesResult(Decorators(i))
       IN last' = [Op("verify_signatures", i) EXCEPT !.ret = r.ret, !.calls = r.calls]
    /\ UNCHANGED <<signed_fields, msgs, heap, schema, nextId, nloads>>

\* Schema.load(data): pre_load, the field schema, post_load
Load(i, data, rt) ==
    /\ Step
    /\ nloads < MaxLoads
    /\ nloads' = nloads + 1
    /\ LET pre == ExtractDecorators(heap[SchemaRef], data, signed_fields)
           obj == PopulateDecorators(FieldSchemaLoad(pre.processed, GenId(nextId)))
           ok == pre.fault = NoFault
       IN /\ heap' = [r \in DOMAIN heap |->
                        IF r = SchemaRef THEN pre.ds
                        ELSE IF ok /\ r = i THEN EmptyDecoratorSet
                        ELSE heap[r]]
          /\ msgs' = IF ok THEN [msgs EXCEPT ![i] = obj] ELSE msgs
          /\ nextId' = IF ok /\ obj.new_id THEN nextId + 1 ELSE nextId
          /\ last' = [Op("load", i) EXCEPT
                        !.data = data, !.fault = pre.fault, !.rt = rt,
                        !.ret = IF ok THEN "message" ELSE NONE,
                        !.src = IF rt THEN last.src ELSE NoSrc]
    /\ UNCHANGED <<signed_fields, schema>>

LoadInput(i) == \E data \in WireInputs : Load(i, data, FALSE)

\* the wire map of the dump just made is loaded
LoadDumped(i) ==
    /\ last.op = "dump"
    /\ last.fault = NoFault
    /\ Load(i, last.out, TRUE)

\* the call before was a sign_field on message i that stored a signature
JustSigned(i) == last.op = "sign_field" /\ last.slot = i /\ last.fault = NoFault

\* Schema.dump(obj)
Dump(i) ==
    /\ Step
    /\ msgs[i].live
    /\ LET r == SchemaDump(msgs[i], Decorators(i), signed_fields)
       IN /\ schema' = [decorators_dict |-> r.decorators_dict,
                        signatures |-> r.signatures]
          /\ last' = [Op("dump", i) EXCEPT
                        !.out = r.data, !.fault = r.fault,
                        !.src = [id |-> msgs[i].id, vals |-> msgs[i].vals,
                                 ds |-> Decorators(i),
                                 sfield |-> IF JustSigned(i) THEN last.field ELSE NONE,
                                 skey |-> IF JustSigned(i) THEN last.arg ELSE NONE]]
          /\ heap' = [heap EXCEPT ![msgs[i].deco] = r.live]
    /\ UNCHANGED <<signed_fields, msgs, nextId, nloads>>

\* MaxChain messages constructed, the first with the arguments _id and
\* _decorators, the others with none
InitChain ==
    /\ signed_fields = <<>>
    /\ \E t \in ThreadInputs :
          /\ msgs = [i \in 1..MaxChain |->
                        AgentMessageInit(IF i = 1 THEN SuppliedId ELSE NONE, i, NoVals,
                                         GenId(i))]
          /\ heap = [r \in 0..MaxChain |->
                        IF r = 1 THEN SetThread(EmptyDecoratorSet, t)
                        ELSE EmptyDecoratorSet]
    /\ schema = [decorators_dict |-> <<>>, signatures |-> <<>>]
    /\ last = NoLast
    /\ nextId = MaxChain + 1
    /\ nops = 0
    /\ nloads = 0

\* msg = Message(_id, None, vals) in a place that holds no message
New(i, _id, vals) ==
    /\ Step
    /\ ~msgs[i].live
    /\ msgs' = [msgs EXCEPT ![i] = AgentMessageInit(_id, i, vals, GenId(nextId))]
    /\ heap' = [heap EXCEPT ![i] = EmptyDecoratorSet]
    /\ nextId' = IF _id = NONE THEN nextId + 1 ELSE nextId
    /\ last' = Op("new", i)
    /\ UNCHANGED <<signed_fields, schema, nloads>>

\* msg._id = val
SetId(i, val) ==
    /\ Step
    /\ msgs[i].live
    /\ msgs' = [msgs EXCEPT ![i].id = val]
    /\ last' = [Op("set_id", i) EXCEPT !.arg = val]
    /\ UNCHANGED <<signed_fields, heap, schema, nextId, nloads>>

\* msg.assign_thread_id(thid, pthid)
AssignThreadId(i, thid, pthid) ==
    /\ Step
    /\ msgs[i].live
    /\ heap' = [heap EXCEPT ![msgs[i].deco] = AssignThreadIdResult(@, thid, pthid)]
    /\ last' = [Op("assign_thread_id", i) EXCEPT !.arg = thid]
    /\ UNCHANGED <<signed_fields, msgs, schema, nextId, nloads>>

\* msgs[i].assign_thread_from(msgs[j]), with j = 0 for None; chain lists the
\* messages of the replies made one from the other by the calls up to this one
AssignThreadFrom(i, j) ==
    /\ Step
    /\ msgs[i].live
    /\ j # 0 => msgs[j].live
    /\ heap' = [heap EXCEPT ![msgs[i].deco] =
                    AssignThreadFromResult(@, IF j = 0 THEN NoMsg ELSE msgs[j],
                                           IF j = 0 THEN EmptyDecoratorSet
                                           ELSE Decorators(j))]
    /\ last' = [Op("assign_thread_from", i) EXCEPT
                  !.msg = j,
                  !.chain = IF j = 0 THEN <<>>
                            ELSE IF last.op = "assign_thread_from" /\ last.slot = j
                                    /\ last.msg # 0
                            THEN Append(last.chain, i)
                            ELSE <<j, i>>]
    /\ UNCHANGED <<signed_fields, msgs, schema, nextId, nloads>>

\* ---------------------------------------------------------- specifications
\* wire maps loaded one after the other through one schema instance
NextLoad == \E i \in Slots : LoadInput(i)
SpecLoad == InitEmpty /\ [][NextLoad]_vars

\* dumps of a constructed message
NextDump == \E i \in Slots : Dump(i)
SpecDump == InitEnvelope /\ [][NextDump]_vars

\* verification of the signatures of a constructed message
NextVerify ==
    \/ \E i \in Slots, f \in FieldSet, k \in Keys \cup {NONE} : VerifySignedField(i, f, k)
    \/ \E i \in Slots : VerifySignatures(i)
SpecVerify == InitEnvelope /\ [][NextVerify]_vars

\* a message is signed, changed, dumped and loaded again
NextRoundTrip ==
    \/ \E i \in Slots, f \in FieldSet, k \in Keys, o \in {"done", "cancelled"} :
          SignField(i, f, k, o)
    \/ \E i \in Slots, f \in FieldSet, v \in Values \cup {NONE} : SetField(i, f, v)
    \/ \E i \in Slots : Dump(i)
    \/ \E i \in Slots : LoadDumped(i)
SpecRoundTrip == InitFew /\ [][NextRoundTrip]_vars

\* a message is signed and changed, with every outcome of the signer
NextSign ==
    \/ \E i \in Slots, f \in FieldSet, k \in Keys, o \in SignerOutcomes :
          SignField(i, f, k, o)
    \/ \E i \in Slots, f \in FieldSet, v \in Values \cup {NONE} : SetField(i, f, v)
SpecSign == InitFew /\ [][NextSign]_vars

\* messages are constructed and loaded through one schema instance, then
\* signed and given a thread
NextShared ==
    \/ \E i \in Slots, vals \in NewVals : New(i, NONE, vals)
    \/ \E i \in Slots, data \in FewWireInputs : Load(i, data, FALSE)
    \/ \E i \in Slots, f \in FieldSet : SignField(i, f, "K1", "done")
    \/ \E i \in Slots, t \in ThreadIdInputs : AssignThreadId(i, t[1], t[2])
SpecShared == InitEmpty /\ [][NextShared]_vars

\* replies take their thread from the messages before them
NextChain ==
    \/ \E i \in 1..MaxChain, j \in 0..MaxChain : AssignThreadFrom(i, j)
    \/ \E i \in 1..MaxChain, t \in ThreadIdInputs : AssignThreadId(i, t[1], t[2])
    \/ \E i \in 1..MaxChain, val \in IdInputs : SetId(i, val)
SpecChain == InitChain /\ [][NextChain]_vars

\* ------------------------------------------------------------------ claims
Policy == Range(signed_fields)
Loaded == last.op = "load"
Dumped == last.op = "dump"
Rejected == last.fault.exc = "ValidationError" /\ last.ret = NONE

\* C1: a load of a wire map that has no F~sig key for a signed field F of the
\* policy fails with a validation fault and returns no message, whatever the
\* schema instance loaded before.
C1_MissingSignatureRejected ==
    (Loaded /\ \E f \in Policy : ~HasKey(last.data, SigKey(f))) => Rejected

\* C2: a load of a wire map that has both the plain key F and the key F~sig
\* for a signed field F of the policy fails with a validation fault and returns
\* no message.
C2_ConflictRejected ==
    (Loaded /\ \E f \in Policy :
                  HasKey(last.data, PlainKey(f)) /\ HasKey(last.data, SigKey(f)))
    => Rejected

C2_Witness ==
    /\ Loaded
    /\ \E f \in Policy : HasKey(last.data, PlainKey(f)) /\ HasKey(last.data, SigKey(f))
    /\ last.fault = Fault("ValidationError", "both field signature and value")

\* C3: a load of a wire map that has a key G~sig for a field G outside the
\* policy, the empty policy included, fails with a validation fault and returns
\* no message.
C3_UnexpectedSignatureRejected ==
    (Loaded /\ \E g \in FieldSet \ Policy : HasKey(last.data, SigKey(g))) => Rejected

C3_Witness ==
    /\ Loaded
    /\ signed_fields = <<>>
    /\ HasKey(last.data, SigKey("b"))
    /\ last.fault = Fault("ValidationError", "unexpected field signature")

\* C4: a dump of a message in which a signed field of the policy has no stored
\* signature fails with the fault "missing signature" and produces no wire map.
C4_DumpEnforcesPolicy ==
    (Dumped /\ \E f \in Policy : FieldSig(last.src.ds, f) = NoSig)
    => /\ last.fault = Fault("BaseModelError", "missing signature for field")
       /\ last.out = <<>>

C4_Witness ==
    /\ Dumped
    /\ \E f \in Policy : FieldSig(last.src.ds, f) = NoSig
    /\ \E g \in FieldSet \ Policy : FieldSig(last.src.ds, g) # NoSig
    /\ last.fault.exc = "BaseModelError"

\* C5: in every wire map a dump produces, each field F with a stored signature
\* has the key F~sig, holding the serialized signature, and has no plain key F.
C5_SignedFieldNeverPlain ==
    (Dumped /\ last.fault = NoFault)
    => \A f \in FieldSet :
          FieldSig(last.src.ds, f) # NoSig
          => /\ HasKey(last.out, SigKey(f))
             /\ Get(last.out, SigKey(f)) = SigSerialize(FieldSig(last.src.ds, f))
             /\ ~HasKey(last.out, PlainKey(f))

C5_Witness ==
    /\ Dumped
    /\ last.fault = NoFault
    /\ signed_fields = <<"a">>
    /\ FieldSig(last.src.ds, "a") # NoSig
    /\ HasKey(last.out, SigKey("a"))
    /\ HasKey(last.out, PlainKey("b"))

\* the place of a key in the order of a dumped map
Rank(key) ==
    IF key = TypeKey THEN 1
    ELSE IF key = IdKey THEN 2
    ELSE IF key.field = "" THEN 3
    ELSE IF key.deco = "" THEN 5
    ELSE IF key.deco = "sig" THEN 6
    ELSE 4

KeysOf(m) == {m[n].k : n \in 1..Len(m)}

\* C6: a dumped map has @type first, then @id, then the global decorators, then
\* the per-field decorators other than signatures, then the plain fields that
\* have no stored signature, then one F~sig key for each signed field.
C6_DumpOrder ==
    (Dumped /\ last.fault = NoFault)
    => LET out == last.out
           ds == last.src.ds
       IN /\ Len(out) >= 2
          /\ out[1].k = TypeKey
          /\ out[2].k = IdKey
          /\ \A m, n \in 1..Len(out) : m < n => Rank(out[m].k) <= Rank(out[n].k)
          /\ Cardinality(KeysOf(out)) = Len(out)
          /\ KeysOf(out) =
                {TypeKey, IdKey}
                \cup {ThreadKey : t \in {ds.thread} \ {NoThread}}
                \cup {FieldDecoKey(ds.fields[n].name, "x") :
                         n \in {m \in 1..Len(ds.fields) : ds.fields[m].x # NONE}}
                \cup {PlainKey(f) : f \in {g \in FieldSet :
                         last.src.vals[g] # NONE /\ FieldSig(ds, g) = NoSig}}
                \cup {SigKey(f) : f \in {g \in FieldSet : FieldSig(ds, g) # NoSig}}

C6_Witness ==
    /\ Dumped
    /\ last.fault = NoFault
    /\ {Rank(k) : k \in KeysOf(last.out)} = 1..6

\* C7: after sign_field(F, K) on a message, loading the dump of the message
\* gives a message whose F is the value that was signed and on which
\* verify_signed_field(F, wallet, K) returns K.
C7_SignedRoundTrip ==
    (Loaded /\ last.rt /\ last.src.sfield # NONE)
    => /\ last.fault = NoFault
       /\ msgs[last.slot].vals[last.src.sfield] = last.src.vals[last.src.sfield]
       /\ VerifySignedFieldResult(Decorators(last.slot), last.src.sfield, last.src.skey)
             = [fault |-> NoFault, ret |-> last.src.skey, calls |-> <<last.src.sfield>>]

\* C8: with an empty policy, loading the dump of a message gives a message of
\* the same id and with the same value of every field.
C8_PlainRoundTrip ==
    (Loaded /\ last.rt /\ signed_fields = <<>>)
    => /\ last.fault = NoFault
       /\ msgs[last.slot].id = last.src.id
       /\ msgs[last.slot].vals = last.src.vals

Verified(sig) == sig.signature = WalletSign(sig.signer, sig.sig_data)

\* C9: verify_signed_field raises when F has no stored signature, else raises
\* when the signature does not verify, else raises when a signer is expected
\* and is not the signer of the signature, else returns that signer; it never
\* returns the outcome of a failed verification.
C9_VerifySignedField ==
    last.op = "verify_signed_field"
    => LET sig == FieldSig(Decorators(last.slot), last.field)
       IN /\ last.ret # "False"
          /\ IF sig = NoSig
             THEN last.fault = Fault("BaseModelError", "missing field signature")
                  /\ last.ret = NONE /\ last.calls = <<>>
             ELSE IF ~Verified(sig)
             THEN last.fault = Fault("BaseModelError",
                                     "field signature verification failed")
                  /\ last.ret = NONE
             ELSE IF last.arg # NONE /\ last.arg # sig.signer
             THEN last.fault = Fault("BaseModelError", "signer verkey does not match")
                  /\ last.ret = NONE
             ELSE last.fault = NoFault /\ last.ret = sig.signer

C9_Witness ==
    /\ last.op = "verify_signed_field"
    /\ ~Verified(FieldSig(Decorators(last.slot), last.field))
    /\ last.arg \in Keys
    /\ last.arg # FieldSig(Decorators(last.slot), last.field).signer
    /\ last.fault.msg = "field signature verification failed"

\* C10: verify_signatures returns True exactly when every stored signature
\* verifies, returns False without a fault when one does not, and calls the
\* verifier for no signature after the first that fails.
C10_VerifySignatures ==
    last.op = "verify_signatures"
    => LET fs == Decorators(last.slot).fields
           signed == {n \in 1..Len(fs) : fs[n].sig # NoSig}
           failing == {n \in signed : ~Verified(fs[n].sig)}
           called == {n \in signed : \A m \in failing : n <= m}
       IN /\ last.fault = NoFault
          /\ last.ret = (IF failing = {} THEN "True" ELSE "False")
          /\ Len(last.calls) = Cardinality(called)
          /\ {last.calls[n] : n \in 1..Len(last.calls)} = {fs[n].name : n \in called}

C10_Witness ==
    /\ last.op = "verify_signatures"
    /\ last.ret = "False"
    /\ Len(last.calls) = 1
    /\ Cardinality({n \in 1..Len(Decorators(last.slot).fields) :
                       Decorators(last.slot).fields[n].sig # NoSig}) = 2

\* field(name).get("x") without creating the entry
FieldOther(ds, name) ==
    IF FieldIndex(ds, name) = 0 THEN NONE ELSE ds.fields[FieldIndex(ds, name)].x

\* what can be read from a decorator set: the thread and, for each field,
\* its signature and its other decorator
View(ds) ==
    [thread |-> ds.thread,
     sig |-> [f \in FieldSet |-> FieldSig(ds, f)],
     x |-> [f \in FieldSet |-> FieldOther(ds, f)]]

\* C11: sign_field changes the decorator set of the message only when it
\* completes.  It raises "field has no value for signature" when the field has
\* no value, and it leaves every decorator set as it was when it raises or when
\* the signer is cancelled or fails; when it completes, the only change is the
\* sig entry of the field, which holds the signature just created, the value
\* returned.  The fields of the message are never changed.
C11_SignFieldFrame ==
    [][last'.op = "sign_field"
       => LET i == last'.slot
              f == last'.field
              r == msgs[i].deco
              value == msgs[i].vals[f]
          IN /\ msgs' = msgs
             /\ \A q \in DOMAIN heap : q # r => heap'[q] = heap[q]
             /\ value = NONE
                => last'.fault = Fault("BaseModelError", "field has no value for signature")
             /\ last'.fault # NoFault => heap'[r] = heap[r] /\ last'.sig = NoSig
             /\ last'.fault = NoFault
                => /\ value # NONE
                   /\ last'.sig = SigCreate(value, last'.arg, Timestamp)
                   /\ View(heap'[r]) =
                         [View(heap[r]) EXCEPT !.sig[f] = last'.sig]]_vars

C11_Witness ==
    /\ last.op = "sign_field"
    /\ last.fault.exc = "CancelledError"
    /\ msgs[last.slot].vals[last.field] # NONE
    /\ FieldSig(Decorators(last.slot), last.field) # NoSig

\* C12: B.assign_thread_from(A) with A None changes nothing; with a message A
\* it sets the thread decorator of B to thid = the thid of the thread decorator
\* of A when A has one with a thid, else the id of A, and pthid = the pthid of
\* the thread decorator of A when A has one, else none.  Nothing else of B and
\* nothing of another decorator set changes.
C12_ThreadDerivation ==
    [][last'.op = "assign_thread_from"
       => LET b == last'.slot
              a == last'.msg
              r == msgs[b].deco
          IN /\ msgs' = msgs
             /\ \A q \in DOMAIN heap : q # r => heap'[q] = heap[q]
             /\ a = 0 => heap' = heap
             /\ a # 0
                => LET t == heap[msgs[a].deco].thread
                   IN /\ heap'[r].thread.present
                      /\ heap'[r].thread.thid =
                            (IF t.present /\ t.thid # NONE THEN t.thid ELSE msgs[a].id)
                      /\ heap'[r].thread.pthid = (IF t.present THEN t.pthid ELSE NONE)
                      /\ heap'[r].fields = heap[r].fields]_vars

C12_Witness ==
    /\ last.op = "assign_thread_from"
    /\ last.msg # 0
    /\ last.msg # last.slot
    /\ Decorators(last.msg).thread = ThreadDecorator(NONE, "P")
    /\ Decorators(last.slot).thread = ThreadDecorator(msgs[last.msg].id, "P")

EffectiveThreadId(i) == ThreadId(msgs[i], Decorators(i))

\* C13: _thread_id is the thid of the thread decorator when the message has a
\* thread decorator with a thid and the id of the message otherwise; after
\* B.assign_thread_from(A) the _thread_id of B is that of A, and every message
\* of a chain of replies made with assign_thread_from has the _thread_id of the
\* first message of the chain.
C13_ThreadContinuity ==
    /\ \A i \in DOMAIN msgs :
          msgs[i].live
          => EffectiveThreadId(i) =
                (IF Decorators(i).thread.present /\ Decorators(i).thread.thid # NONE
                 THEN Decorators(i).thread.thid
                 ELSE msgs[i].id)
    /\ (last.op = "assign_thread_from" /\ last.msg # 0)
       => /\ EffectiveThreadId(last.slot) = EffectiveThreadId(last.msg)
          /\ \A n \in 1..Len(last.chain) :
                EffectiveThreadId(last.chain[n]) = EffectiveThreadId(last.chain[1])

C13_Witness ==
    /\ last.op = "assign_thread_from"
    /\ Len(last.chain) = 3
    /\ Cardinality(Range(last.chain)) = 3
    /\ Decorators(last.chain[1]).thread = ThreadDecorator(NONE, "P")
    /\ EffectiveThreadId(last.chain[3]) = msgs[last.chain[1]].id

\* a successful load has put a new message in place i
Replaced(i) == last'.op = "load" /\ last'.slot = i /\ last'.fault = NoFault

\* C14: the id of a message never changes after its construction, whatever
\* operation of the message or of the schema is called.
C14_IdImmutable ==
    [][\A i \in DOMAIN msgs :
          (msgs[i].live /\ ~Replaced(i)) => msgs'[i].id = msgs[i].id]_vars

\* every call but the _id setter leaves the id of every message as it was
C14_IdChangedBySetterOnly ==
    [][\A i \in DOMAIN msgs :
          (msgs[i].live /\ ~Replaced(i) /\ msgs'[i].id # msgs[i].id)
          => last'.op = "set_id" /\ last'.slot = i]_vars

\* C15: a dump, whether it returns a wire map or raises, leaves the message
\* and every decorator set as they were, so that every stored signature can
\* still be read, and a second dump of the same message right after gives the
\* same outcome and the same wire map.
C15_DumpLeavesMessage ==
    [][last'.op = "dump"
       => /\ msgs' = msgs
          /\ heap' = heap
          /\ \A f \in FieldSet :
                GetSignature(heap'[msgs[last'.slot].deco], f)
                   = GetSignature(heap[msgs[last'.slot].deco], f)
          /\ (last.op = "dump" /\ last.slot = last'.slot)
             => last'.out = last.out /\ last'.fault = last.fault]_vars

C15_Witness ==
    /\ Dumped
    /\ nops >= 2
    /\ last.fault = NoFault
    /\ \E f \in FieldSet :
          /\ GetSignature(Decorators(last.slot), f) # NoSig
          /\ HasKey(last.out, SigKey(f))

\* the outcome of the pre_load hook in a schema instance that has loaded nothing
FreshLoad(data) == ExtractDecorators(EmptyDecoratorSet, data, signed_fields)

\* C16: a load gives what a schema instance that has loaded nothing gives for
\* the same wire map and policy: the same fault or, when it returns a message,
\* the same field values and exactly the decorators and signatures of that
\* wire map, none of an earlier load.
C16_LoadStateless ==
    Loaded
    => /\ last.fault = FreshLoad(last.data).fault
       /\ last.fault = NoFault
          => /\ View(Decorators(last.slot)) = View(FreshLoad(last.data).ds)
             /\ msgs[last.slot].vals
                   = FieldSchemaLoad(FreshLoad(last.data).processed, NONE).vals

\* the calls that write decorators of the message they are made on
Writes == {"sign_field", "assign_thread_id", "assign_thread_from"}

\* C17: no two messages hold the same decorator set, whatever constructions
\* and loads made them, and a sign_field or a thread assignment on a message
\* leaves the decorators of every other message as they were.
C17_ExclusiveOwnership ==
    [][/\ \A i, j \in DOMAIN msgs :
             (i # j /\ msgs'[i].live /\ msgs'[j].live) => msgs'[i].deco # msgs'[j].deco
       /\ last'.op \in Writes
          => \A j \in DOMAIN msgs :
                (j # last'.slot /\ msgs[j].live)
                => View(heap'[msgs'[j].deco]) = View(heap[msgs[j].deco])]_vars

\* C18: a wire map returned by a dump under the policy has the key F~sig for
\* exactly the signed fields of the policy and the plain key of none of them,
\* and a load under the same policy, in a schema instance that has loaded
\* nothing, accepts it.
C18_DumpLoadSymmetric ==
    (Dumped /\ last.fault = NoFault)
    => /\ \A f \in FieldSet : HasKey(last.out, SigKey(f)) <=> f \in Policy
       /\ \A f \in Policy : ~HasKey(last.out, PlainKey(f))
       /\ FreshLoad(last.out).fault = NoFault

\* C19: a dump of a message in which every signed field of the policy has a
\* stored signature returns a wire map, also when a signature is stored for a
\* field that has no value.
C19_DumpSingleFailure ==
    (Dumped /\ \A f \in Policy : GetSignature(last.src.ds, f) # NoSig)
    => last.fault = NoFault /\ last.out # <<>>

\* C20: when the dump of a message is loaded, every field with a stored
\* signature has in the loaded message the value it had in the dumped message
\* at the time of the dump.
C20_SignedValueKept ==
    (Loaded /\ last.rt /\ last.fault = NoFault)
    => \A f \in FieldSet :
          GetSignature(last.src.ds, f) # NoSig
          => msgs[last.slot].vals[f] = last.src.vals[f]

====
